---- MODULE Spec2Model ----
(***************************************************************************)
(* Model of src/qnx/grid_sim.cpp: the QNX grid simulator.  One sequential  *)
(* process that, forever, writes a cycle line to std::cerr, emits one      *)
(* JSON power event per sector to std::cout and sleeps 5 seconds.          *)
(*                                                                         *)
(* Units: voltages are held in millivolts and loads in thousandths of a    *)
(* percent, so that the rounding done by std::fixed/std::setprecision(2)   *)
(* is a real conversion.  The wall clock is a pair [s, ms]: whole seconds  *)
(* since the epoch (what to_time_t returns) and the millisecond remainder. *)
(* Strings that the claims inspect are sequences of one-character strings. *)
(***************************************************************************)
EXTENDS Integers, Sequences, FiniteSets, TLC

VARIABLES pc, cycle, i, gen, now, coutBuf, coutBad, stdout, rec, trace

vars == <<pc, cycle, i, gen, now, coutBuf, coutBad, stdout, rec, trace>>

\* ------------------------------------------------------------------ bounds
\* Number of calls of emitPowerEvent that the model follows.
MaxEmits == 6

\* ------------------------------------------------------- program constants
SECTORS == <<"sector-1", "sector-2", "sector-3">>
NUM_SECTORS == 3
LOAD_MIN == 0
\* LOAD_MAX given the value of NORMAL_VOLTAGE_MAX.
LOAD_MAX_FromVoltage == 130000
LOAD_MAX == 100000
VOLTAGE_DIST_MIN == 0
VOLTAGE_DIST_MAX == 130000
FAILURE_THRESHOLD == 50000
EVENT_INTERVAL_SEC == 5

\* --------------------------------------------------------------- inputs
\* Pairs of consecutive values of generate_canonical in [0,1), in units of
\* 1/100000: the first gives the voltage (0 V, 49.999 V, 50.000 V,
\* 129.998 V), the second the load (0 % or 99.999 %).  Each status occurs
\* with each load.
Draws == { <<0, 0>>, <<38461, 99999>>, <<38462, 0>>, <<99999, 99999>> }

\* Wall-clock instants at which the process may be started: the last
\* millisecond of 2000-02-28, so that the reads fall on both sides of a
\* change of second, day and month.
StartTimes == { [s |-> 951782399, ms |-> 999] }

\* Change of the wall clock, in milliseconds, between two reads of it.  A
\* negative value is a backward adjustment of the system clock.
ClockDeltas == {-1, 0, 1}

\* What the operating system can do with the write(2) behind a flush.
WriteOutcomes == {"ok", "fail", "sigpipe"}

\* ------------------------------------------------------- text rendering
DigitChar == <<"0", "1", "2", "3", "4", "5", "6", "7", "8", "9">>

RECURSIVE Digits(_)
\* operator<< of a non-negative integer: its decimal digits, no padding.
Digits(n) == IF n < 10 THEN <<DigitChar[n + 1]>>
             ELSE Digits(n \div 10) \o <<DigitChar[(n % 10) + 1]>>

RECURSIVE PadLeft(_, _, _)
\* std::setw(w) with std::setfill(fill): pad on the left up to width w.
PadLeft(s, w, fill) == IF Len(s) >= w THEN s
                       ELSE PadLeft(<<fill>> \o s, w, fill)

\* std::fixed << std::setprecision(2) of a value held in thousandths.
Fixed2(x) ==
  LET c == (x + 5) \div 10
  IN  Digits(c \div 100) \o <<".">> \o PadLeft(Digits(c % 100), 2, "0")

\* std::gmtime: broken-down UTC time of a time_t (civil-from-days).
gmtime(t) ==
  LET days == t \div 86400
      rem  == t % 86400
      z    == days + 719468
      era  == z \div 146097
      doe  == z - era * 146097
      yoe  == (doe - doe \div 1460 + doe \div 36524 - doe \div 146096) \div 365
      doy  == doe - (365 * yoe + yoe \div 4 - yoe \div 100)
      mp   == (5 * doy + 2) \div 153
      mon  == IF mp < 10 THEN mp + 3 ELSE mp - 9
  IN  [ year |-> yoe + era * 400 + (IF mon <= 2 THEN 1 ELSE 0),
        mon  |-> mon,
        mday |-> doy - (153 * mp + 2) \div 5 + 1,
        hour |-> rem \div 3600,
        min  |-> (rem % 3600) \div 60,
        sec  |-> rem % 60 ]

\* The format without the date: "%H:%M:%S".
put_timeTimeOnly(tm) ==
  PadLeft(Digits(tm.hour), 2, "0") \o <<":">>
    \o PadLeft(Digits(tm.min), 2, "0") \o <<":">>
    \o PadLeft(Digits(tm.sec), 2, "0")

\* std::put_time(tm, "%Y-%m-%dT%H:%M:%S")
put_time(tm) ==
  Digits(tm.year) \o <<"-">> \o PadLeft(Digits(tm.mon), 2, "0") \o <<"-">>
    \o PadLeft(Digits(tm.mday), 2, "0") \o <<"T">>
    \o PadLeft(Digits(tm.hour), 2, "0") \o <<":">>
    \o PadLeft(Digits(tm.min), 2, "0") \o <<":">>
    \o PadLeft(Digits(tm.sec), 2, "0")

\* The field without std::setfill('0'): padded with blanks.
MillisFieldBlankFill(ms) == <<".">> \o PadLeft(Digits(ms), 3, " ") \o <<"Z">>

\* ss << "." << std::setfill('0') << std::setw(3) << ms.count() << "Z"
MillisField(ms) == <<".">> \o PadLeft(Digits(ms), 3, "0") \o <<"Z">>

\* getCurrentTimestamp applied to the instant t that system_clock::now()
\* returned.
getCurrentTimestamp(t) == put_time(gmtime(t.s)) \o MillisField(t.ms)

\* ----------------------------------------------------------- the clock
\* The instant d milliseconds after t (before it when d is negative).
ClockPlus(t, d) ==
  LET total == t.ms + d
  IN  IF total < 0 THEN [s |-> t.s - 1, ms |-> total + 1000]
      ELSE [s |-> t.s + total \div 1000, ms |-> total % 1000]

\* ------------------------------------------------------ random numbers
\* std::uniform_real_distribution<double>(a, b)(gen) for the canonical
\* value u / 100000: a + (b - a) * u.
UniformReal(a, b, u) == a + (((b - a) \div 1000) * u) \div 100

\* The test written with <= instead of <.
is_failure_inclusive(voltage) == voltage <= FAILURE_THRESHOLD

\* bool is_failure = voltage < 50.0;
is_failure(voltage) == voltage < FAILURE_THRESHOLD

\* ------------------------------------------------------------ the state
\* pc      where main is: "start", "loop" (top of while), "for" (the sector
\*         loop), "sleep", "exit" (after the while) or "killed" (by SIGPIPE)
\* cycle   int cycle
\* i       int i of the sector loop
\* gen     number of values drawn from std::mt19937 gen
\* now     what system_clock::now() returned last
\* coutBuf lines put into std::cout and not yet flushed
\* coutBad std::cout has badbit set
\* stdout  the lines that reached file descriptor 1: of each its sector_id
\*         and timestamp fields and the instant the timestamp renders
\* rec     the Reading of the line put into std::cout last
\* trace   the writes to std::cerr, the lines that reached stdout, the failed
\*         writes and the sleeps, in the order they happened, each as
\*         <<kind, number, value of cycle at that moment>>

NoReading == [ sector_id |-> "none", voltage |-> 0, load |-> 0,
               voltage_text |-> <<>>, load_text |-> <<>>,
               timestamp |-> <<>>, instant |-> [s |-> 0, ms |-> 0],
               status |-> "none", vdraw |-> 0, ldraw |-> 0,
               written |-> FALSE ]

Init ==
  /\ pc = "start"
  /\ cycle = 0
  /\ i = 0
  /\ gen = 0
  /\ now \in StartTimes
  /\ coutBuf = <<>>
  /\ coutBad = FALSE
  /\ stdout = <<>>
  /\ rec = NoReading
  /\ trace = <<>>

\* while (true)
LoopCond == TRUE

\* The counter started at 1.
CycleInitOne == 1

\* int cycle = 0;
CycleInit == 0

\* cycle++
NextCycle(c) == c + 1

\* A line end that does not flush ("\n" and no cout.flush()).
FlushNever(buf, out, bad, outcome) ==
  [buf |-> buf, out |-> out, bad |-> bad, killed |-> FALSE]

\* std::endl / std::cout.flush() on a stream holding buf, when out has
\* reached the descriptor: the stream's new buffer, the descriptor's new
\* content, the new badbit and whether the process got SIGPIPE.
Flush(buf, out, bad, outcome) ==
  IF bad \/ buf = <<>>
    THEN [buf |-> buf, out |-> out, bad |-> bad, killed |-> FALSE]
  ELSE IF outcome = "ok"
    THEN [buf |-> <<>>, out |-> out \o buf, bad |-> FALSE, killed |-> FALSE]
  ELSE IF outcome = "fail"
    THEN [buf |-> <<>>, out |-> out, bad |-> TRUE, killed |-> FALSE]
  ELSE [buf |-> buf, out |-> out, bad |-> bad, killed |-> TRUE]

\* std::cout << ... : a stream with badbit set takes nothing.
Insert(buf, bad, line) == IF bad THEN buf ELSE Append(buf, line)

\* The Reading that emitPowerEvent builds from the two canonical draws u1
\* (voltage) and u2 (load) and the instant t read from the clock.
Reading(sector_id, u1, u2, t) ==
  LET voltage == UniformReal(VOLTAGE_DIST_MIN, VOLTAGE_DIST_MAX, u1)
      load    == UniformReal(LOAD_MIN, LOAD_MAX, u2)
  IN  [ sector_id    |-> sector_id,
        voltage      |-> voltage,
        load         |-> load,
        voltage_text |-> Fixed2(voltage),
        load_text    |-> Fixed2(load),
        timestamp    |-> getCurrentTimestamp(t),
        instant      |-> t,
        status       |-> IF is_failure(voltage) THEN "failure" ELSE "normal",
        vdraw        |-> gen + 1,
        ldraw        |-> gen + 2,
        written      |-> FALSE ]

\* What the model keeps of the line that emitPowerEvent writes for r.
Line(r) == [sector_id |-> r.sector_id, timestamp |-> r.timestamp,
            instant |-> r.instant]

\* The sleep moved into the sector loop.
ForNextSleepEach(j) == "sleep"

\* for (int i = 0; i < NUM_SECTORS; i++): where main goes once i has the
\* value j.
ForNext(j) == IF j < NUM_SECTORS THEN "for" ELSE "sleep"

\* void emitPowerEvent(const char* sector_id, std::mt19937& gen)
emitPowerEvent(sector_id, u1, u2, d, outcome) ==
  \E t \in {ClockPlus(now, d)} :
  \E r \in {Reading(sector_id, u1, u2, t)} :
  \E f1 \in {Flush(Insert(coutBuf, coutBad, Line(r)), stdout, coutBad,
                   outcome)} :
  \E f2 \in {Flush(f1.buf, f1.out, f1.bad, outcome)} :
    /\ t.s >= 0
    /\ gen' = gen + 2
    /\ now' = t
    /\ rec' = IF coutBad THEN rec
              ELSE [r EXCEPT !.written = Len(f2.out) > Len(stdout)]
    /\ coutBuf' = f2.buf
    /\ stdout' = f2.out
    /\ coutBad' = f2.bad
    /\ trace' = IF Len(f2.out) > Len(stdout)
                  THEN Append(trace, <<"reading", i + 1, cycle>>)
                ELSE IF f2.bad /\ ~coutBad
                  THEN Append(trace, <<"wfail", i + 1, cycle>>)
                ELSE trace
    /\ pc' = IF f1.killed \/ f2.killed THEN "killed" ELSE ForNext(i + 1)

\* main, lines 80-89: seed the generator, write the four startup lines.
Startup ==
  /\ pc = "start"
  /\ trace' = trace \o << <<"banner", 0, 0>>,
                          <<"interval", EVENT_INTERVAL_SEC, 0>>,
                          <<"sectors", NUM_SECTORS, 0>>,
                          <<"mode", 0, 0>> >>
  /\ cycle' = CycleInit
  /\ pc' = "loop"
  /\ UNCHANGED <<i, gen, now, coutBuf, coutBad, stdout, rec>>

\* main, lines 91-95: test of the while, cycle++, the cycle line.
LoopHead ==
  /\ pc = "loop"
  /\ IF LoopCond
       THEN /\ cycle' = NextCycle(cycle)
            /\ trace' = Append(trace, <<"cycle", cycle', cycle'>>)
            /\ i' = 0
            /\ pc' = "for"
       ELSE /\ pc' = "exit"
            /\ UNCHANGED <<cycle, trace, i>>
  /\ UNCHANGED <<gen, now, coutBuf, coutBad, stdout, rec>>

\* main, lines 98-100: one pass of the sector loop.
EmitStep ==
  /\ pc = "for"
  /\ i < NUM_SECTORS
  /\ gen < 2 * MaxEmits
  /\ \E u \in Draws, d \in ClockDeltas,
        outcome \in IF coutBad THEN {"ok"} ELSE WriteOutcomes :
       emitPowerEvent(SECTORS[i + 1], u[1], u[2], d, outcome)
  /\ i' = i + 1
  /\ UNCHANGED cycle

\* main, line 103: std::this_thread::sleep_for(seconds(EVENT_INTERVAL_SEC))
Sleep ==
  /\ pc = "sleep"
  /\ now' = [now EXCEPT !.s = @ + EVENT_INTERVAL_SEC]
  /\ trace' = Append(trace, <<"sleep", EVENT_INTERVAL_SEC, cycle>>)
  /\ pc' = "loop"
  /\ UNCHANGED <<cycle, i, gen, coutBuf, coutBad, stdout, rec>>

Next == Startup \/ LoopHead \/ EmitStep \/ Sleep

Spec == Init /\ [][Next]_vars

\* A second specification for getCurrentTimestamp alone: the clock shows any
\* millisecond of two seconds (the epoch and 2000-02-28T23:59:59) and the
\* function is applied once.
TsInstants == { [s |-> sec, ms |-> m] : sec \in {0, 951782399}, m \in 0..999 }

InitTs ==
  /\ pc = "ts"
  /\ cycle = 0
  /\ i = 0
  /\ gen = 0
  /\ now \in TsInstants
  /\ coutBuf = <<>>
  /\ coutBad = FALSE
  /\ stdout = <<>>
  /\ rec = NoReading
  /\ trace = <<>>

FormatTimestamp ==
  /\ pc = "ts"
  /\ rec' = [NoReading EXCEPT !.timestamp = getCurrentTimestamp(now),
                              !.instant = now]
  /\ pc' = "ts_done"
  /\ UNCHANGED <<cycle, i, gen, now, coutBuf, coutBad, stdout, trace>>

NextTs == FormatTimestamp

SpecTs == InitTs /\ [][NextTs]_vars

\* ------------------------------------------------- helpers of the claims
Digit == {"0", "1", "2", "3", "4", "5", "6", "7", "8", "9"}

\* ASCII codes of the characters that occur in the rendered fields.
CharCode(c) ==
  CASE c = " " -> 32 [] c = "-" -> 45 [] c = "." -> 46
    [] c = "0" -> 48 [] c = "1" -> 49 [] c = "2" -> 50 [] c = "3" -> 51
    [] c = "4" -> 52 [] c = "5" -> 53 [] c = "6" -> 54 [] c = "7" -> 55
    [] c = "8" -> 56 [] c = "9" -> 57 [] c = ":" -> 58 [] c = "T" -> 84
    [] c = "Z" -> 90

RECURSIVE LexLeq(_, _)
\* a <= b as strings (byte-wise lexicographic order).
LexLeq(a, b) ==
  IF a = <<>> THEN TRUE
  ELSE IF b = <<>> THEN FALSE
  ELSE IF Head(a) = Head(b) THEN LexLeq(Tail(a), Tail(b))
  ELSE CharCode(Head(a)) < CharCode(Head(b))

\* The instant a is not later than the instant b.
InstantLeq(a, b) == a.s < b.s \/ (a.s = b.s /\ a.ms <= b.ms)

RECURSIVE DigitsValue(_)
\* The number that a string of digits (other characters skipped) denotes.
DigitsValue(str) ==
  IF str = <<>> THEN 0
  ELSE LET c    == str[Len(str)]
           rest == DigitsValue(SubSeq(str, 1, Len(str) - 1))
       IN  IF c \in Digit THEN 10 * rest + (CharCode(c) - 48) ELSE rest

\* Indices of the trace entries of one kind.
Events(kind) == { k \in 1..Len(trace) : trace[k][1] = kind }

\* ---------------------------------------------------------------- claims

\* C1: every Reading put on the output stream has status "failure" exactly
\* when the voltage drawn for it is below 50.0 V and "normal" otherwise; the
\* load plays no part.
C1_StatusIffVoltageBelow50 ==
  rec.sector_id # "none" =>
    /\ rec.status \in {"failure", "normal"}
    /\ (rec.status = "failure") <=> (rec.voltage < 50000)

\* A written Reading whose voltage is just under the threshold (49.999 V,
\* rendered 50.00) with the highest load, classified as failure.
C1_Witness ==
  /\ rec.written
  /\ rec.voltage = 49999
  /\ rec.load = 99999
  /\ rec.status = "failure"

\* C7: every emitted Reading has 0.0 <= voltage <= 130.0 and
\* 0.0 <= load <= 100.0, as drawn and as rendered with two decimals, and the
\* two values are consecutive draws on the one generator, voltage first.
C7_VoltageAndLoadInRange ==
  rec.sector_id # "none" =>
    /\ 0 <= rec.voltage /\ rec.voltage <= 130000
    /\ 0 <= rec.load /\ rec.load <= 100000
    /\ DigitsValue(rec.voltage_text) <= 13000
    /\ DigitsValue(rec.load_text) <= 10000
    /\ rec.ldraw = rec.vdraw + 1
    /\ rec.ldraw <= gen

\* A written Reading at the top of both ranges: 129.998 V rendered 130.00
\* and 99.999 % rendered 100.00.
C7_Witness ==
  /\ rec.written
  /\ rec.voltage_text = <<"1", "3", "0", ".", "0", "0">>
  /\ rec.load_text = <<"1", "0", "0", ".", "0", "0">>
  /\ rec.vdraw = 3

\* C8: the timestamp ends in '.', exactly three decimal digits that denote
\* the millisecond value, zero-padded on the left, and 'Z'.
C8_ThreeDigitMillis ==
  rec.timestamp # <<>> =>
    LET ts == rec.timestamp
        n  == Len(ts)
    IN  /\ n >= 5
        /\ ts[n] = "Z"
        /\ ts[n - 4] = "."
        /\ \A k \in (n - 3)..(n - 1) : ts[k] \in Digit
        /\ DigitsValue(SubSeq(ts, n - 3, n - 1)) = rec.instant.ms
        /\ \A k \in 1..(n - 5) : ts[k] # "."

\* An instant with zero milliseconds rendered with ".000Z".
C8_Witness ==
  /\ pc = "ts_done"
  /\ rec.instant.ms = 0
  /\ rec.timestamp = <<"2", "0", "0", "0", "-", "0", "2", "-", "2", "8", "T",
                       "2", "3", ":", "5", "9", ":", "5", "9",
                       ".", "0", "0", "0", "Z">>

\* C10: whenever main is about to build the next Reading or to sleep,
\* nothing is pending in the buffer of std::cout and, unless a write has
\* failed, every line inserted so far has reached the descriptor.
C10_FlushedAfterEachLine ==
  pc \in {"for", "sleep", "loop"} =>
    /\ coutBuf = <<>>
    /\ ~coutBad => 2 * Len(stdout) = gen

\* Asleep after the first cycle with its three lines on the descriptor.
C10_Witness ==
  /\ pc = "sleep"
  /\ Len(stdout) = 3
  /\ coutBuf = <<>>
  /\ rec.written

\* C2: once k cycles are complete exactly 3k lines have been written, and
\* the j-th line (from 0) carries SECTORS[j mod 3].
C2_ThreeLinesPerCompletedCycle ==
  /\ pc = "loop" => Len(stdout) = NUM_SECTORS * cycle
  /\ \A j \in 1..Len(stdout) :
       stdout[j].sector_id = SECTORS[((j - 1) % NUM_SECTORS) + 1]

\* C3, as claimed: of any two lines written, the earlier one's timestamp is
\* less than or equal to the later one's.
C3_TimestampsNonDecreasing ==
  \A a, b \in 1..Len(stdout) :
    a < b => LexLeq(stdout[a].timestamp, stdout[b].timestamp)

\* C3, amended: of any two lines written, the earlier one's timestamp is
\* less than or equal to the later one's, provided the system clock was not
\* set back between the reads of it that lie between the two lines.
C3_NonDecreasingUnlessClockSetBack ==
  \A a, b \in 1..Len(stdout) :
    (/\ a < b
     /\ \A k \in a..(b - 1) :
          InstantLeq(stdout[k].instant, stdout[k + 1].instant))
      => LexLeq(stdout[a].timestamp, stdout[b].timestamp)

\* Two consecutive lines read one millisecond apart across midnight before a
\* leap day: ...-02-28T23:59:59.999Z, then ...-02-29T00:00:00.000Z.
C3_Witness ==
  /\ Len(stdout) >= 2
  /\ stdout[1].instant = [s |-> 951782399, ms |-> 999]
  /\ stdout[2].instant = [s |-> 951782400, ms |-> 0]

\* C4: the only suspension is one sleep of 5 seconds per cycle, taken when
\* all three sectors have been handled: every cycle line but the first
\* directly follows exactly one sleep, belonging to the cycle before; a sleep
\* is never followed by anything but a cycle line, so none lies between two
\* Readings of a cycle; the first cycle line directly follows the startup
\* lines.
C4_OneSleepBetweenCycles ==
  /\ \A k \in Events("sleep") :
       /\ trace[k][2] = 5
       /\ k = Len(trace) \/ trace[k + 1][1] = "cycle"
       /\ trace[k - 1][1] # "sleep"
  /\ \A k \in Events("cycle") :
       IF trace[k][2] = 1
         THEN trace[k - 1][1] = "mode" /\ \A j \in 1..k : trace[j][1] # "sleep"
         ELSE trace[k - 1][1] = "sleep" /\ trace[k - 1][3] = trace[k][2] - 1
  /\ pc = "sleep" => i = 3 /\ gen = 2 * 3 * cycle
  /\ pc \in {"for", "sleep"} => Cardinality(Events("sleep")) = cycle - 1

\* The second cycle under way after one sleep, four lines written.
C4_Witness ==
  /\ pc = "for"
  /\ cycle = 2
  /\ Len(stdout) = 4
  /\ Cardinality(Events("sleep")) = 1

\* C5: after a write to the output stream has failed no further cycle is
\* started.
C5_NoCycleAfterFailedWrite ==
  \A f \in Events("wfail") : \A k \in Events("cycle") : k < f

\* C6: the end of main is never reached and, unless the process is killed,
\* the three Readings of every cycle get written.  The code writes the
\* Readings of cycle n only while cycle holds n, so they have to be on the
\* stream by the time the sector loop of cycle n is left.
C6_EveryCycleRunsAndEmits ==
  /\ pc # "exit"
  /\ pc = "sleep" => Len(stdout) >= NUM_SECTORS * cycle
  /\ pc \in {"loop", "for"} /\ cycle >= 1 =>
       Len(stdout) >= NUM_SECTORS * (cycle - 1)

\* C9: the cycle lines carry the numbers 1, 2, 3, ... in this order, one line
\* per cycle; the line of cycle k comes before every Reading of cycle k and
\* after every Reading of the cycles before.
C9_CyclesNumberedFromOne ==
  pc # "start" =>
    /\ \A n \in 1..cycle :
         Cardinality({k \in Events("cycle") : trace[k][2] = n}) = 1
    /\ \A k \in Events("cycle") : trace[k][2] \in 1..cycle
    /\ \A j, k \in Events("cycle") : j < k => trace[j][2] < trace[k][2]
    /\ \A r \in Events("reading") : \A k \in Events("cycle") :
         (k < r) <=> (trace[k][2] <= trace[r][3])

\* The line of cycle 3 written after the six Readings of cycles 1 and 2.
C9_Witness ==
  /\ cycle = 3
  /\ Len(stdout) = 6
  /\ trace[Len(trace)] = <<"cycle", 3, 3>>

====
